---- MODULE Spec2Model ----
(***************************************************************************)
(* Model of saleor/graphql/page/mutations/attributes.py: the mutations     *)
(* PageAttributeAssign and PageAttributeUnassign over the many-to-many     *)
(* relation PageType.page_attributes.                                      *)
(*                                                                         *)
(* The relation is kept as the rows of its through table: for every page   *)
(* type, the number of rows linking it to each attribute.  The page type   *)
(* and every attribute named by a request exist and the global ids are     *)
(* well formed: get_node_or_error and resolve_global_ids_to_primary_keys   *)
(* raise before any code of this file acts otherwise.                      *)
(***************************************************************************)
EXTENDS Integers, Sequences, FiniteSets

VARIABLES
    attribute_type,   \* Attribute.type of every attribute, by pk
    page_attributes,  \* rows of the through table: [page type -> [attribute -> count]]
    store_unique,     \* whether the store holds a uniqueness constraint on the pair
    call,             \* the last completed sequential mutation: its arguments,
                      \* the relation before it, and its outcome
    requests          \* the concurrent requests, each with its position in perform_mutation

vars == <<attribute_type, page_attributes, store_unique, call, requests>>

\* ------------------------------------------------------------------ bounds
NumAttributes == 2
MaxIds == 2

AttributePks == 1..NumAttributes
\* Two page types: the target of a request and another one.  The code reads
\* and writes only the rows of its target.
PageTypePks == {1, 2}
\* Two requests in flight at once.
Requests == {"r1", "r2"}

\* --------------------------------------------------------------- constants
PAGE_TYPE == "page-type"
PRODUCT_TYPE == "product-type"
AttributeTypes == {PAGE_TYPE, PRODUCT_TYPE}

INVALID == "invalid"
ATTRIBUTE_ALREADY_ASSIGNED == "attribute_already_assigned"

\* ----------------------------------------------------------------- helpers
Range(s) == {s[i] : i \in DOMAIN s}

\* The attributes linked to page type pt in relation rel.
Assigned(rel, pt) == {a \in AttributePks : rel[pt][a] > 0}

\* A queryset is iterated in an order the fields modelled here do not fix:
\* every ordering of its rows, each attribute of S once per row cnt[a].
QuerySet(S, cnt) ==
    LET rows == UNION {{<<a, i>> : i \in 1..cnt[a]} : a \in S}
        n == Cardinality(rows)
    IN {s \in [1..n -> S] :
           \A a \in S : Cardinality({i \in 1..n : s[i] = a}) = cnt[a]}

\* graphene.Node.to_global_id: the encoding of "<type>:<pk>".
to_global_id(type, pk) == <<type, pk>>

\* resolve_global_ids_to_primary_keys(attribute_ids, Attribute): the pk of
\* every global id, in the order given.
resolve_global_ids_to_primary_keys(ids) == [i \in DOMAIN ids |-> ids[i][2]]

\* The attribute_ids argument: a list of global ids of attributes.
AttributeIdLists ==
    UNION {[1..n -> {to_global_id("Attribute", a) : a \in AttributePks}] : n \in 0..MaxIds}

\* filter(type=PAGE_TYPE) written for exclude(type=PAGE_TYPE).
invalid_attributes_filter(attr_pks) ==
    QuerySet({a \in Range(attr_pks) : attribute_type[a] = PAGE_TYPE},
             [a \in AttributePks |-> 1])

\* The check of the type left out.
invalid_attributes_none(attr_pks) == {<<>>}

\* Attribute.objects.filter(pk__in=attr_pks).exclude(type=PAGE_TYPE)
invalid_attributes(attr_pks) ==
    QuerySet({a \in Range(attr_pks) : attribute_type[a] # PAGE_TYPE},
             [a \in AttributePks |-> 1])

\* Attribute.objects.get_assigned_page_type_attributes(page_type_pk): the
\* attributes joined with the rows of the through table for the page type.
get_assigned_page_type_attributes(page_type_pk) == page_attributes[page_type_pk]

\* The filter on the pks left out: every attribute of the page type.
assigned_attrs_unfiltered(page_type, attr_pks) ==
    QuerySet(Assigned(page_attributes, page_type),
             get_assigned_page_type_attributes(page_type))

\* The filter on the page type left out: the candidates assigned to any page type.
assigned_attrs_any_page_type(page_type, attr_pks) ==
    QuerySet({a \in Range(attr_pks) : \E pt \in PageTypePks : page_attributes[pt][a] > 0},
             [a \in AttributePks |-> 1])

\* ....filter(pk__in=attr_pks)
assigned_attrs(page_type, attr_pks) ==
    QuerySet(Assigned(page_attributes, page_type) \cap Range(attr_pks),
             get_assigned_page_type_attributes(page_type))

\* ValidationError(message, code=..., params={"attributes": ...}); the message
\* is fixed by the code.
ValidationError(code, attributes) == [code |-> code, attributes |-> attributes]

\* [graphene.Node.to_global_id("Attribute", attr.pk) for attr in ...]
GlobalIds(attrs) == [i \in DOMAIN attrs |-> to_global_id("Attribute", attrs[i])]

\* errors = defaultdict(list): a mapping from keys to lists, with no key yet.
EmptyErrors == [k \in {} |-> <<>>]

\* errors[key].append(error): the key comes into being with its first error.
AppendError(errors, key, error) ==
    [k \in DOMAIN errors \cup {key} |->
        IF k = key
        THEN Append(IF key \in DOMAIN errors THEN errors[key] ELSE <<>>, error)
        ELSE errors[k]]

\* The second check written as the else of the first.
clean_attributes_short_circuit(errors, page_type, attr_pks) ==
    IF {a \in Range(attr_pks) : attribute_type[a] # PAGE_TYPE} # {}
    THEN {AppendError(errors, "attribute_ids",
                      ValidationError(INVALID, GlobalIds(inv))) :
             inv \in invalid_attributes(attr_pks)}
    ELSE {IF asg = <<>> THEN errors
          ELSE AppendError(errors, "attribute_ids",
                           ValidationError(ATTRIBUTE_ALREADY_ASSIGNED, GlobalIds(asg))) :
             asg \in assigned_attrs(page_type, attr_pks)}

\* PageAttributeAssign.clean_attributes: the set of the values errors may
\* hold afterwards, one per iteration order of the two querysets.
clean_attributes(errors, page_type, attr_pks) ==
    LET after_invalid ==
            {IF inv = <<>> THEN errors
             ELSE AppendError(errors, "attribute_ids",
                              ValidationError(INVALID, GlobalIds(inv))) :
                inv \in invalid_attributes(attr_pks)}
    IN UNION {
         {IF asg = <<>> THEN e
          ELSE AppendError(e, "attribute_ids",
                           ValidationError(ATTRIBUTE_ALREADY_ASSIGNED, GlobalIds(asg))) :
             asg \in assigned_attrs(page_type, attr_pks)} :
         e \in after_invalid}

\* page_type.page_attributes.add(*attr_pks), first part: the pks given, as a
\* set, less those the page type is already linked to.
missing_target_ids(rel, page_type, attr_pks) ==
    Range(attr_pks) \ Assigned(rel, page_type)

\* A store that lets every row in.
Conflicts_never(rel, page_type, missing) == FALSE

\* Whether inserting rows for the attributes in missing breaks the uniqueness
\* constraint of the store.
Conflicts(rel, page_type, missing) ==
    store_unique /\ missing \cap Assigned(rel, page_type) # {}

\* page_type.page_attributes.add(*attr_pks), second part: one row inserted for
\* every missing attribute.
bulk_create(rel, page_type, missing) ==
    [rel EXCEPT ![page_type] =
        [a \in AttributePks |-> IF a \in missing THEN @[a] + 1 ELSE @[a]]]

\* One row inserted for every pk given, repeated or not.
add_every_pk(rel, page_type, attr_pks) ==
    [rel EXCEPT ![page_type] =
        [a \in AttributePks |->
            @[a] + Cardinality({i \in DOMAIN attr_pks : attr_pks[i] = a})]]

\* page_type.page_attributes.add(*attr_pks)
add(rel, page_type, attr_pks) ==
    bulk_create(rel, page_type, missing_target_ids(rel, page_type, attr_pks))

\* clear() written for remove(*attr_pks).
remove_all(rel, page_type, attr_pks) ==
    [rel EXCEPT ![page_type] = [a \in AttributePks |-> 0]]

\* remove(attr_pks[0]) written for remove(*attr_pks).
remove_first(rel, page_type, attr_pks) ==
    [rel EXCEPT ![page_type] =
        [a \in AttributePks |->
            IF attr_pks # <<>> /\ a = attr_pks[1] THEN 0 ELSE @[a]]]

\* add(*attr_pks) kept from the assign mutation.
remove_as_add(rel, page_type, attr_pks) == add(rel, page_type, attr_pks)

\* page_type.page_attributes.remove(*attr_pks): every row linking the page type
\* to one of the pks is deleted; a pk with no row is passed over.
remove(rel, page_type, attr_pks) ==
    [rel EXCEPT ![page_type] =
        [a \in AttributePks |-> IF a \in Range(attr_pks) THEN 0 ELSE @[a]]]

\* ------------------------------------------------------------ initial states
NoCall == [op |-> "none", page_type_id |-> 0, attribute_ids |-> <<>>,
           before |-> <<>>, errors |-> EmptyErrors]

Idle == [pc |-> "idle", page_type |-> 0, attr_pks |-> <<>>, missing |-> {},
         result |-> "none", errors |-> <<>>]

Relations == [PageTypePks -> [AttributePks -> 0..1]]

\* The relation invariant of the data model: only page attributes are linked,
\* and a pair is linked by at most one row.
Consistent ==
    \A pt \in PageTypePks : \A a \in AttributePks :
        /\ page_attributes[pt][a] <= 1
        /\ page_attributes[pt][a] > 0 => attribute_type[a] = PAGE_TYPE

InitCommon ==
    /\ attribute_type \in [AttributePks -> AttributeTypes]
    /\ call = NoCall
    /\ requests = [r \in Requests |-> Idle]

\* Sequential requests never read store_unique: add inserts only the rows it
\* has just found missing.
Init ==
    /\ InitCommon
    /\ store_unique = TRUE
    /\ page_attributes \in Relations
    /\ Consistent

\* A store whose rows were written by other code paths as well: an attribute
\* of another type may be linked to a page type.
InitAny ==
    /\ InitCommon
    /\ store_unique = TRUE
    /\ page_attributes \in Relations

\* Concurrent requests, over a store with or without the uniqueness constraint.
InitConc ==
    /\ InitCommon
    /\ store_unique \in BOOLEAN
    /\ page_attributes \in Relations
    /\ Consistent

\* ----------------------------------------------------------------- actions
\* PageAttributeAssign.perform_mutation, as one sequential request.
Assign(page_type_id, attribute_ids) ==
    LET attr_pks == resolve_global_ids_to_primary_keys(attribute_ids)
    IN \E errors \in clean_attributes(EmptyErrors, page_type_id, attr_pks) :
         /\ call' = [op |-> "assign", page_type_id |-> page_type_id,
                     attribute_ids |-> attribute_ids,
                     before |-> page_attributes, errors |-> errors]
         /\ IF DOMAIN errors # {}
            THEN UNCHANGED page_attributes
            ELSE page_attributes' = add(page_attributes, page_type_id, attr_pks)
         /\ UNCHANGED <<attribute_type, store_unique, requests>>

\* PageAttributeUnassign.perform_mutation, as one sequential request.
Unassign(page_type_id, attribute_ids) ==
    LET attr_pks == resolve_global_ids_to_primary_keys(attribute_ids)
    IN /\ call' = [op |-> "unassign", page_type_id |-> page_type_id,
                   attribute_ids |-> attribute_ids,
                   before |-> page_attributes, errors |-> EmptyErrors]
       /\ page_attributes' = remove(page_attributes, page_type_id, attr_pks)
       /\ UNCHANGED <<attribute_type, store_unique, requests>>

Next ==
    \E page_type_id \in PageTypePks : \E attribute_ids \in AttributeIdLists :
        \/ Assign(page_type_id, attribute_ids)
        \/ Unassign(page_type_id, attribute_ids)

Spec == Init /\ [][Next]_vars

\* One assign request on each store: every store is an initial state of
\* SpecAny and Assign does not read call, so a second request meets no store
\* that a first one does not.
NextAssign ==
    /\ call = NoCall
    /\ \E page_type_id \in PageTypePks : \E attribute_ids \in AttributeIdLists :
          Assign(page_type_id, attribute_ids)

SpecAny == InitAny /\ [][NextAssign]_vars

\* ------------------------------------------------------ concurrent requests
\* The codes of the errors a request is answered with.
Codes(errors) ==
    IF "attribute_ids" \in DOMAIN errors
    THEN [i \in DOMAIN errors["attribute_ids"] |-> errors["attribute_ids"][i].code]
    ELSE <<>>

\* PageAttributeAssign.perform_mutation up to the raise: the page type and the
\* pks are resolved and clean_attributes reads the store.  A request with
\* errors ends here; no other request can observe the raise.
Validate(r, page_type_id, attribute_ids) ==
    LET attr_pks == resolve_global_ids_to_primary_keys(attribute_ids)
    IN /\ requests[r].pc = "idle"
       /\ \E errors \in clean_attributes(EmptyErrors, page_type_id, attr_pks) :
            requests' = [requests EXCEPT ![r] =
                IF DOMAIN errors # {}
                THEN [Idle EXCEPT !.pc = "done", !.result = "validation_error",
                                  !.errors = Codes(errors)]
                ELSE [Idle EXCEPT !.pc = "validated", !.page_type = page_type_id,
                                  !.attr_pks = attr_pks]]
       /\ UNCHANGED <<attribute_type, page_attributes, store_unique, call>>

\* add, first statement: the store is read for the rows already there.
AddRead(r) ==
    /\ requests[r].pc = "validated"
    /\ requests' = [requests EXCEPT ![r] =
           [Idle EXCEPT !.pc = "adding", !.page_type = requests[r].page_type,
                        !.missing = missing_target_ids(page_attributes,
                                                       requests[r].page_type,
                                                       requests[r].attr_pks)]]
    /\ UNCHANGED <<attribute_type, page_attributes, store_unique, call>>

\* add, second statement: the missing rows are inserted.  A store with the
\* uniqueness constraint rejects the statement when a row is there by now.
AddInsert(r) ==
    /\ requests[r].pc = "adding"
    /\ IF Conflicts(page_attributes, requests[r].page_type, requests[r].missing)
       THEN /\ requests' = [requests EXCEPT ![r] =
                   [Idle EXCEPT !.pc = "done", !.result = "integrity_error"]]
            /\ UNCHANGED page_attributes
       ELSE /\ requests' = [requests EXCEPT ![r] =
                   [Idle EXCEPT !.pc = "done", !.result = "ok"]]
            /\ page_attributes' = bulk_create(page_attributes, requests[r].page_type,
                                              requests[r].missing)
    /\ UNCHANGED <<attribute_type, store_unique, call>>

NextConc ==
    \E r \in Requests :
        \/ \E page_type_id \in PageTypePks : \E attribute_ids \in AttributeIdLists :
              Validate(r, page_type_id, attribute_ids)
        \/ AddRead(r)
        \/ AddInsert(r)

SpecConc == InitConc /\ [][NextConc]_vars

\* ------------------------------------------------ the last call, for the claims
Target == call.page_type_id
Candidates == Range(resolve_global_ids_to_primary_keys(call.attribute_ids))
Before == Assigned(call.before, Target)
After == Assigned(page_attributes, Target)
WrongKind == {a \in Candidates : attribute_type[a] # PAGE_TYPE}
AlreadyAssigned == Candidates \cap Before
Succeeded == DOMAIN call.errors = {}

\* The errors reported under attribute_ids with the given code.
Reported(code) ==
    IF "attribute_ids" \in DOMAIN call.errors
    THEN {i \in DOMAIN call.errors["attribute_ids"] :
             call.errors["attribute_ids"][i].code = code}
    ELSE {}

\* One error with the code is reported under attribute_ids, and it lists the
\* global id of every attribute of S once and nothing else.
ReportsExactly(code, S) ==
    /\ Cardinality(Reported(code)) = 1
    /\ \A i \in Reported(code) :
         LET listed == call.errors["attribute_ids"][i].attributes
         IN /\ Range(listed) = {to_global_id("Attribute", a) : a \in S}
            /\ Len(listed) = Cardinality(S)

\* C1: an assign whose candidates are all page attributes and none of them
\* assigned to the page type reports no error, and leaves the page type linked
\* to the previous attributes and the candidates, each by one row.
C1_AssignAddsCandidates ==
    (call.op = "assign" /\ WrongKind = {} /\ AlreadyAssigned = {}) =>
        /\ Succeeded
        /\ After = Before \cup Candidates
        /\ \A a \in AttributePks : page_attributes[Target][a] <= 1

C1_Witness ==
    /\ call.op = "assign"
    /\ Succeeded
    /\ Len(call.attribute_ids) > Cardinality(Candidates)
    /\ Before # {}
    /\ After = Before \cup Candidates
    /\ After # Before

\* C2: an assign with a candidate of another type fails with one INVALID error
\* under attribute_ids that lists exactly the candidates of another type, and
\* the relation is as it was before the call.
C2_WrongKindRejected ==
    (call.op = "assign" /\ WrongKind # {}) =>
        /\ ReportsExactly(INVALID, WrongKind)
        /\ page_attributes = call.before

C2_Witness ==
    /\ call.op = "assign"
    /\ WrongKind # {}
    /\ Candidates \ WrongKind # {}
    /\ AlreadyAssigned = {}
    /\ ReportsExactly(INVALID, WrongKind)
    /\ page_attributes = call.before

\* Whether the next step is a call with the page type and ids of the last one.
SameArguments ==
    /\ call'.page_type_id = call.page_type_id
    /\ call'.attribute_ids = call.attribute_ids

C3_Repeated ==
    (/\ call.op = "assign" /\ Succeeded /\ call.attribute_ids # <<>>
     /\ call'.op = "assign" /\ SameArguments) =>
        /\ DOMAIN call'.errors = {"attribute_ids"}
        /\ \E i \in DOMAIN call'.errors["attribute_ids"] :
              call'.errors["attribute_ids"][i].code = ATTRIBUTE_ALREADY_ASSIGNED
        /\ page_attributes' = page_attributes

C3_Reported ==
    (call.op = "assign" /\ AlreadyAssigned # {}) =>
        /\ ReportsExactly(ATTRIBUTE_ALREADY_ASSIGNED, AlreadyAssigned)
        /\ page_attributes = call.before

\* C3: an assign with a candidate already assigned to the page type fails with
\* one ATTRIBUTE_ALREADY_ASSIGNED error under attribute_ids that lists exactly
\* the candidates already assigned, and the relation is as it was before the
\* call; a successful assign of some candidates, repeated, fails so.
C3_AlreadyAssignedRejected == []C3_Reported /\ [][C3_Repeated]_vars

C3_Witness ==
    /\ call.op = "assign"
    /\ AlreadyAssigned # {}
    /\ Candidates \ AlreadyAssigned # {}
    /\ WrongKind = {}
    /\ ReportsExactly(ATTRIBUTE_ALREADY_ASSIGNED, AlreadyAssigned)
    /\ page_attributes = call.before

\* C4: an assign with a candidate of another type and a candidate already
\* assigned reports both errors under attribute_ids, each listing all of its
\* attributes, and an assign reports nothing exactly when it has neither.
C4_BothChecksRun ==
    call.op = "assign" =>
        /\ (WrongKind # {} /\ AlreadyAssigned # {}) =>
              /\ ReportsExactly(INVALID, WrongKind)
              /\ ReportsExactly(ATTRIBUTE_ALREADY_ASSIGNED, AlreadyAssigned)
              /\ Len(call.errors["attribute_ids"]) = 2
        /\ Succeeded <=> (WrongKind = {} /\ AlreadyAssigned = {})

C4_Witness ==
    /\ call.op = "assign"
    /\ WrongKind \cap AlreadyAssigned # {}
    /\ WrongKind # AlreadyAssigned
    /\ ReportsExactly(INVALID, WrongKind)
    /\ ReportsExactly(ATTRIBUTE_ALREADY_ASSIGNED, AlreadyAssigned)

C5_AnyAssignStep ==
    (/\ call.op = "assign" /\ WrongKind = {}
     /\ call'.op = "unassign" /\ SameArguments) =>
        Assigned(page_attributes', Target) = Before

\* C5 as stated: an assign of page attributes followed by an unassign with the
\* same arguments leaves the page type with the attributes it had before the
\* assign.
C5_RoundTripOfAnyAssign == [][C5_AnyAssignStep]_vars

C5_SucceededAssignStep ==
    (/\ call.op = "assign" /\ WrongKind = {} /\ AlreadyAssigned = {}
     /\ call'.op = "unassign" /\ SameArguments) =>
        page_attributes' = call.before

\* C5, amended: an assign of page attributes none of which is assigned to the
\* page type, followed by an unassign with the same arguments, leaves the
\* relation as it was before the assign.
C5_RoundTrip == [][C5_SucceededAssignStep]_vars

C5_Witness ==
    /\ call.op = "assign"
    /\ Succeeded
    /\ Before # {}
    /\ After # Before
    /\ ENABLED (/\ Unassign(call.page_type_id, call.attribute_ids)
                /\ page_attributes' = call.before)

C6_RepeatedStep ==
    (call.op = "unassign" /\ call'.op = "unassign" /\ SameArguments) =>
        /\ page_attributes' = page_attributes
        /\ DOMAIN call.errors = {}
        /\ DOMAIN call'.errors = {}
        /\ Assigned(page_attributes', Target) = Before \ Candidates

\* C6: an unassign repeated with the same arguments changes nothing, neither
\* call reports an error, and the page type is left with the attributes it had
\* before the first call less the candidates.
C6_UnassignIdempotent == [][C6_RepeatedStep]_vars

C6_Witness ==
    /\ call.op = "unassign"
    /\ Cardinality(AlreadyAssigned) > 1
    /\ After = Before \ Candidates
    /\ ENABLED (/\ Unassign(call.page_type_id, call.attribute_ids)
                /\ page_attributes' = page_attributes)

\* C7: an unassign reports no error whatever the type of its candidates and
\* whether they are assigned or not; a candidate that was not assigned is not
\* assigned afterwards, and when none was the relation is as it was.
C7_UnassignNeverFails ==
    call.op = "unassign" =>
        /\ Succeeded
        /\ After = Before \ Candidates
        /\ AlreadyAssigned = {} => page_attributes = call.before

C7_Witness ==
    /\ call.op = "unassign"
    /\ Succeeded
    /\ WrongKind # {}
    /\ AlreadyAssigned = {}
    /\ Before # {}
    /\ page_attributes = call.before

\* C8: in every state reached by assign and unassign calls from a relation
\* that links only page attributes, each pair at most once, the relation links
\* only page attributes, each pair at most once.
C8_RelationInvariant ==
    \A pt \in PageTypePks : \A a \in Assigned(page_attributes, pt) :
        /\ attribute_type[a] = PAGE_TYPE
        /\ page_attributes[pt][a] = 1

C8_Witness ==
    /\ call.op = "assign"
    /\ Succeeded
    /\ After # Before
    /\ \E a \in AttributePks : attribute_type[a] # PAGE_TYPE
    /\ C8_RelationInvariant

C9_Unique ==
    store_unique => \A pt \in PageTypePks : \A a \in AttributePks :
                        page_attributes[pt][a] <= 1

C9_Step ==
    \A r \in Requests :
        requests[r].pc \in {"validated", "adding"} =>
            \/ requests'[r].pc \in {"validated", "adding"}
            \/ /\ requests'[r].pc = "done"
               /\ requests'[r].result \in {"ok", "integrity_error"}
               /\ ATTRIBUTE_ALREADY_ASSIGNED \notin Range(requests'[r].errors)

\* C9: a request that has passed clean_attributes goes on to the add and is
\* never answered ATTRIBUTE_ALREADY_ASSIGNED, whatever other requests have
\* added since; a pair is linked by two rows only in a store without the
\* uniqueness constraint.
C9_CheckThenAddNotSerialized == []C9_Unique /\ [][C9_Step]_vars

\* Both requests have passed the check for the same pair and neither has added it.
C9_Witness ==
    /\ requests["r1"].pc = "validated"
    /\ requests["r2"].pc = "validated"
    /\ requests["r1"].page_type = requests["r2"].page_type
    /\ \E a \in Range(requests["r1"].attr_pks) \cap Range(requests["r2"].attr_pks) :
          page_attributes[requests["r1"].page_type][a] = 0

C10_OtherPageTypes ==
    call.op # "none" =>
        /\ \A q \in PageTypePks \ {Target} : page_attributes[q] = call.before[q]
        /\ (call.op = "assign" /\ WrongKind = {} /\ AlreadyAssigned = {}) => Succeeded

\* C10: a call leaves the rows of every page type but its target as they were
\* and no step changes the type of an attribute; an assign of page attributes
\* not assigned to its target succeeds, whichever other page types they are
\* assigned to.
C10_Frame == []C10_OtherPageTypes /\ [][attribute_type' = attribute_type]_vars

C10_Witness ==
    /\ call.op = "assign"
    /\ Succeeded
    /\ \E q \in PageTypePks \ {Target} :
          /\ Candidates \cap Assigned(call.before, q) # {}
          /\ page_attributes[q] = call.before[q]
    /\ After = Before \cup Candidates
    /\ After # Before

====
